---- MODULE Spec2Model ----
(***************************************************************************)
(* Model of gantt_bot.py: the per-conversation classification session      *)
(* kept in context.user_data and driven by the /gantt command and the      *)
(* inline-keyboard callbacks of handle_buttons.                            *)
(***************************************************************************)
EXTENDS Integers, Sequences, FiniteSets, TLC

\* user_data, out and hist follow one conversation on its own.
\* application_user_data, files and last follow several conversations that
\* share the working directory of the bot.
VARIABLES user_data, out, hist, application_user_data, files, last

vars == <<user_data, out, hist, application_user_data, files, last>>

single == <<user_data, out, hist>>
shared == <<application_user_data, files, last>>

(* ------------------------------ bounds -------------------------------- *)

\* Longest batch of sticky notes the board returns; also the number of
\* toggle buttons that earlier keyboards of the chat may still carry.
MaxNotes == 3

(* ----------------------------- raw notes ------------------------------ *)

\* Markup tokens that BeautifulSoup(...).get_text() drops.
Tags == {"<p>", "</p>"}

Note(content) == [has_data |-> TRUE, content |-> content]

NoteA == Note(<<"<p>", "A", " ", "|", " ", "2025-01-01", " ", "|", "2025-01-03", "|", "Ann", "</p>">>)
NoteB == Note(<<"<p>", "B", "|", "2025-01-02", "|", "2025-01-05", "|", " ", "Bob", "</p>">>)
NoteC == Note(<<"C", "|", "2025-01-04", "|", "2025-01-04", "|", "Cid">>)
NoteShort == Note(<<"<p>", "S", "|", "2025-01-06", "|", "Sam", "</p>">>)
NoteDate9 == Note(<<"D", "|", "2025-1-07", "|", "2025-01-09", "|", "Dan">>)
NoteNoData == [has_data |-> FALSE, content |-> <<>>]

\* The sticky notes of the board, in the order the provider lists them.
Board == <<NoteA, NoteB, NoteC, NoteShort, NoteDate9, NoteNoData>>

\* What one fetch can return: at most MaxNotes consecutive notes of the
\* board, from its first note on or up to its last one; none when the
\* request fails or the board is empty.
Batches ==
    LET n == IF MaxNotes < Len(Board) THEN MaxNotes ELSE Len(Board) IN
    {SubSeq(Board, 1, j) : j \in 0..n}
    \cup {SubSeq(Board, Len(Board) - j + 1, Len(Board)) : j \in 0..n}

(* ------------------------------ parser -------------------------------- *)

RECURSIVE get_text(_)
get_text(content) ==
    IF content = <<>> THEN <<>>
    ELSE IF Head(content) \in Tags THEN get_text(Tail(content))
         ELSE <<Head(content)>> \o get_text(Tail(content))

RECURSIVE split(_)
split(s) ==
    IF s = <<>> THEN << <<>> >>
    ELSE LET r == split(Tail(s)) IN
         IF Head(s) = "|" THEN << <<>> >> \o r
         ELSE << <<Head(s)>> \o Head(r) >> \o Tail(r)

RECURSIVE lstrip(_)
lstrip(s) ==
    IF s # <<>> /\ Head(s) = " " THEN lstrip(Tail(s)) ELSE s

RECURSIVE rstrip(_)
rstrip(s) ==
    IF s # <<>> /\ s[Len(s)] = " " THEN rstrip(SubSeq(s, 1, Len(s) - 1)) ELSE s

RECURSIVE join(_)
join(s) == IF s = <<>> THEN "" ELSE Head(s) \o join(Tail(s))

strip(s) == join(rstrip(lstrip(s)))

\* None is <<>>; a parsed note is the one-element sequence holding its dict.
parse_note(note) ==
    IF ~note.has_data THEN <<>>
    ELSE LET clean == get_text(note.content)
             raw == split(clean)
             parts == [k \in 1..Len(raw) |-> strip(raw[k])]
         IN IF Len(parts) # 4 THEN <<>>
            ELSE << [Task |-> parts[1], Start |-> parts[2],
                     End |-> parts[3], Person |-> parts[4]] >>

\* Mutant of parse_batch: the first rejected note ends the batch.
RECURSIVE parse_batch_abort(_)
parse_batch_abort(notes_raw) ==
    IF notes_raw = <<>> \/ parse_note(Head(notes_raw)) = <<>> THEN <<>>
    ELSE parse_note(Head(notes_raw)) \o parse_batch_abort(Tail(notes_raw))

\* notes = [parse_note(n) for n in notes_raw if parse_note(n)], line 118.
RECURSIVE parse_batch(_)
parse_batch(notes_raw) ==
    IF notes_raw = <<>> THEN <<>>
    ELSE parse_note(Head(notes_raw)) \o parse_batch(Tail(notes_raw))

(* --------------------------- chart generation ------------------------- *)

\* pd.to_datetime on the date strings of the board: <<year, month, day>>.
to_datetime(s) ==
    CASE s = "2025-01-01" -> <<2025, 1, 1>>
      [] s = "2025-01-02" -> <<2025, 1, 2>>
      [] s = "2025-01-03" -> <<2025, 1, 3>>
      [] s = "2025-01-04" -> <<2025, 1, 4>>
      [] s = "2025-01-05" -> <<2025, 1, 5>>
      [] s = "2025-1-07" -> <<2025, 1, 7>>
      [] s = "2025-01-09" -> <<2025, 1, 9>>

pad(n, width) ==
    LET t == ToString(n) IN
    IF Len(t) >= width THEN t
    ELSE IF Len(t) = width - 1 THEN "0" \o t
    ELSE IF Len(t) = width - 2 THEN "00" \o t
    ELSE "000" \o t

\* Timestamp.strftime('%Y-%m-%d')
strftime(d) == pad(d[1], 4) \o "-" \o pad(d[2], 2) \o "-" \o pad(d[3], 2)

IsLeap(y) == (y % 4 = 0 /\ y % 100 # 0) \/ y % 400 = 0

DaysBeforeMonth(y, m) ==
    LET cum == <<0, 31, 59, 90, 120, 151, 181, 212, 243, 273, 304, 334>> IN
    cum[m] + (IF m > 2 /\ IsLeap(y) THEN 1 ELSE 0)

\* Proleptic Gregorian ordinal of a date, as datetime.toordinal().
toordinal(d) ==
    LET y == d[1] - 1 IN
    y * 365 + (y \div 4) - (y \div 100) + (y \div 400)
        + DaysBeforeMonth(d[1], d[2]) + d[3]

\* The data frame built at the top of generate_chart.
DataFrame(data) ==
    [k \in 1..Len(data) |->
        [Task |-> data[k].Task,
         Start |-> to_datetime(data[k].Start),
         End |-> to_datetime(data[k].End),
         Person |-> data[k].Person,
         Type |-> data[k].Type,
         Duration |-> toordinal(to_datetime(data[k].End))
                        - toordinal(to_datetime(data[k].Start))]]

Colors(type) ==
    CASE type = "Critical Path" -> "#FF0000"
      [] type = "Floating Task" -> "#1E90FF"
      [] OTHER -> "#999999"

\* The bars drawn, one per data frame row; y is the 0-based row index.
ChartRows(df, chart_type) ==
    [k \in 1..Len(df) |->
        [y |-> k - 1, label |-> df[k].Task, annotation |-> df[k].Person,
         color |-> Colors(df[k].Type),
         width |-> IF chart_type = "gantt" THEN df[k].Duration ELSE 0]]

\* Mutant of WorkbookRows: the data rows are written last row first.
WorkbookRows_reversed(df) ==
    << <<"Task", "Start", "End", "Person", "Type">> >> \o
    [k \in 1..Len(df) |->
        LET row == df[Len(df) + 1 - k] IN
        <<row.Task, strftime(row.Start), strftime(row.End), row.Person, row.Type>>]

\* The worksheet: the header row, then one row per data frame row.
WorkbookRows(df) ==
    << <<"Task", "Start", "End", "Person", "Type">> >> \o
    [k \in 1..Len(df) |->
        <<df[k].Task, strftime(df[k].Start), strftime(df[k].End),
          df[k].Person, df[k].Type>>]

generate_chart(data, image_path, excel_path, chart_type) ==
    LET df == DataFrame(data) IN
    [image |-> [path |-> image_path, rows |-> ChartRows(df, chart_type)],
     excel |-> [path |-> excel_path, rows |-> WorkbookRows(df)]]

(* --------------------------- session state ---------------------------- *)

\* context.user_data.get("current_type") when the key was never stored.
None == "None"

\* Insertion order of the selected_tasks dict, which items() iterates in.
CategoryOrder == <<"Critical Path", "Floating Task">>

\* The default of context.user_data.get("selected_tasks", {}).
EmptyDict == [t \in {} |-> {}]

\* user_data of a conversation nothing has been stored in.  A key that was
\* never stored holds the value its readers get from .get(): FALSE for the
\* credentials, [] for parsed_notes, {} for selected_tasks, None otherwise.
NewUserData ==
    [miro_token |-> FALSE, board_id |-> FALSE, parsed_notes |-> <<>>,
     selected_tasks |-> EmptyDict, current_type |-> None, chart_type |-> None]

(* --------------------------- callback data ---------------------------- *)

\* A callback_data string, kept as the prefix the handler tests with
\* startswith() and the rest: "toggle_2" is ["toggle_", "2"].
Data(s) == [head |-> "", tail |-> s]
ToggleData(idx) == [head |-> "toggle_", tail |-> ToString(idx)]
ChartData(kind) == [head |-> "chart_", tail |-> kind]
FormatData(fmt) == [head |-> "format_", tail |-> fmt]

\* int(data.split("_")[1])
int(s) == CHOOSE n \in 0..MaxNotes : ToString(n) = s

\* Every callback_data the bot puts on a button (keyboards of earlier runs
\* of the bot stay in the chat, so any of them can arrive in any state).
CallbackData ==
    {Data(s) : s \in {"noop", "set_type_critical", "set_type_floating",
                      "reset_all", "done_selecting", "generate_chart"}}
    \cup {ToggleData(i) : i \in 0..(MaxNotes - 1)}
    \cup {ChartData(k) : k \in {"gantt", "timeline"}}
    \cup {FormatData(f) : f \in {"png", "excel"}}

(* ----------------------------- responses ------------------------------ *)

Silent == [text |-> "", show_alert |-> FALSE]
Alert(text) == [text |-> text, show_alert |-> TRUE]

Button(label, data) ==
    [cross |-> FALSE, marker |-> "", label |-> label, callback_data |-> data]

Message(text, markup) == [text |-> text, reply_markup |-> markup]

\* What one handler invocation did, as the operator sees it; pre is the
\* user_data the handler started from.
Response(op, data, pre) ==
    [op |-> op, data |-> data, pre |-> pre, outcome |-> "", error |-> "",
     answers |-> <<>>, replies |-> <<>>, keyboard |-> <<>>, via |-> "",
     current |-> "", summary |-> <<>>, request |-> <<>>, chart |-> <<>>,
     sent |-> <<>>, fetched |-> <<>>]

\* The answer the operator's client shows for a callback query: the first
\* one the handler gives it (line 147 answers every query before the
\* branches run); NoAnswer when the handler gave none.
NoAnswer == [text |-> "", show_alert |-> FALSE, given |-> FALSE]

QueryAnswer(r) ==
    IF r.answers = <<>> THEN NoAnswer
    ELSE [text |-> Head(r.answers).text,
          show_alert |-> Head(r.answers).show_alert, given |-> TRUE]

Result(ud, r) == [user_data |-> ud, out |-> r]

Raise(ud, r, exc) == Result(ud, [r EXCEPT !.outcome = exc, !.error = exc])

(* ------------------------- handle_buttons parts ----------------------- *)

\* Iteration order of a set of small non-negative ints (CPython keeps an
\* int below the table size in the slot of its own value): ascending.
RECURSIVE iter(_)
iter(ids) ==
    IF ids = {} THEN <<>>
    ELSE LET m == CHOOSE x \in ids : \A y \in ids : x <= y
         IN <<m>> \o iter(ids \ {m})

\* selected.items(): the keys in insertion order.
items(selected) == SelectSeq(CategoryOrder, LAMBDA t : t \in DOMAIN selected)

\* notes[idx] raises IndexError for some selected idx.
IndexOutOfRange(notes, selected) ==
    \E t \in DOMAIN selected : \E idx \in selected[t] : idx >= Len(notes)

\* Mutant of option: a task of the other category stays selectable.
option_never_blocked(idx, note, selected, current) ==
    [cross |-> FALSE,
     marker |-> IF idx \in selected["Critical Path"] THEN "red"
                ELSE IF idx \in selected["Floating Task"] THEN "blue" ELSE "",
     label |-> note.Task, callback_data |-> ToggleData(idx)]

\* The option built for one task, lines 226-237.
option(idx, note, selected, current) ==
    LET marker == IF idx \in selected["Critical Path"] THEN "red"
                  ELSE IF idx \in selected["Floating Task"] THEN "blue"
                  ELSE ""
        blocked == \/ idx \in selected["Critical Path"] /\ current = "Floating Task"
                   \/ idx \in selected["Floating Task"] /\ current = "Critical Path"
    IN [cross |-> blocked, marker |-> marker, label |-> note.Task,
        callback_data |-> IF blocked THEN Data("noop") ELSE ToggleData(idx)]

ActionButtons ==
    <<Button("Selesai", Data("done_selecting")),
      Button("Reset", Data("reset_all")),
      Button("Critical", Data("set_type_critical")),
      Button("Floating", Data("set_type_floating"))>>

\* "Show updated task selection", lines 222-243.  FakeQuery's
\* edit_message_text sends the keyboard as a new message.
show_selection(ud, r, fake) ==
    LET notes == ud.parsed_notes
        selected == ud.selected_tasks
        current == IF ud.current_type = None THEN "Critical Path"
                   ELSE ud.current_type
    IN IF notes # <<>> /\ "Critical Path" \notin DOMAIN selected
       THEN Raise(ud, r, "KeyError")
       ELSE Result(ud,
              [r EXCEPT
                 !.keyboard = [k \in 1..Len(notes) |->
                                 option(k - 1, notes[k], selected, current)]
                              \o ActionButtons,
                 !.current = current,
                 !.via = IF fake THEN "reply_text" ELSE "edit_message_text"])

\* Lines 154-156.
set_type_branch(ud, r, data, fake) ==
    LET tipe == IF data = Data("set_type_critical") THEN "Critical Path"
                ELSE "Floating Task"
    IN show_selection([ud EXCEPT !.current_type = tipe],
                      [r EXCEPT !.outcome = "TypeSet"], fake)

\* Mutant of clear: only the Critical Path set is emptied.
clear_critical_only(selected, t) ==
    IF t = "Critical Path" THEN [selected EXCEPT ![t] = {}] ELSE selected

\* set.clear() on one category, lines 159 and 160.
clear(selected, t) == [selected EXCEPT ![t] = {}]

\* Lines 158-162.
reset_all_branch(ud, r) ==
    LET selected == ud.selected_tasks IN
    IF "Critical Path" \notin DOMAIN selected THEN Raise(ud, r, "KeyError")
    ELSE LET s1 == clear(selected, "Critical Path") IN
         IF "Floating Task" \notin DOMAIN s1
         THEN Raise([ud EXCEPT !.selected_tasks = s1], r, "KeyError")
         ELSE Result([ud EXCEPT !.selected_tasks = clear(s1, "Floating Task")],
                     [r EXCEPT !.outcome = "Reset",
                               !.replies = <<Message("Semua pilihan task telah dibatalkan.", <<>>)>>])

\* The offer made after the summary, lines 168-169.
done_offer(selected) ==
    <<Message("Lanjutkan ke pembuatan chart:",
              <<Button("Generate Chart", Data("generate_chart"))>>)>>

\* Lines 164-170.
done_selecting_branch(ud, r) ==
    LET notes == ud.parsed_notes
        selected == ud.selected_tasks
        keys == items(selected)
        names(t) == LET ids == iter(selected[t])
                    IN [k \in 1..Len(ids) |-> notes[ids[k] + 1].Task]
    IN IF IndexOutOfRange(notes, selected) THEN Raise(ud, r, "IndexError")
       ELSE Result(ud,
              [r EXCEPT
                 !.outcome = "Summary",
                 !.summary = [k \in 1..Len(keys) |->
                                [type |-> keys[k], tasks |-> names(keys[k])]],
                 !.replies = <<Message("Ringkasan task yang dipilih:", <<>>)>>
                             \o done_offer(selected)])

\* "if not tipe", line 174.
no_type(tipe) == tipe = None

\* Mutant of other_type: the conflict test looks at the active category.
other_type_same(tipe) == tipe

\* Line 178.
other_type(tipe) ==
    IF tipe = "Critical Path" THEN "Floating Task" ELSE "Critical Path"

\* Mutant of in_other: the conflict test of lines 179-181 is left out.
in_other_never(selected, other, idx) == FALSE

\* "if idx in selected[other]", line 179.
in_other(selected, other, idx) == idx \in selected[other]

\* Mutant of toggle_set: a selected index is not removed again.
toggle_set_add_only(ids, idx) == ids \cup {idx}

\* Lines 183-186 on the set of the active category.
toggle_set(ids, idx) ==
    IF idx \in ids THEN ids \ {idx} ELSE ids \cup {idx}

\* Lines 172-186.
toggle_branch(ud, r, data, fake) ==
    LET idx == int(data.tail)
        selected == ud.selected_tasks
        tipe == ud.current_type
        other == other_type(tipe)
    IN IF no_type(tipe)
       THEN Result(ud, [r EXCEPT !.outcome = "NoActiveCategory",
                                 !.answers = @ \o <<Alert("Pilih tipe task dulu!")>>])
       ELSE IF other \notin DOMAIN selected THEN Raise(ud, r, "KeyError")
       ELSE IF in_other(selected, other, idx)
       THEN Result(ud, [r EXCEPT !.outcome = "CrossCategoryConflict",
                                 !.answers = @ \o <<Alert("Task sudah dipilih di tipe lain!")>>])
       ELSE IF tipe \notin DOMAIN selected THEN Raise(ud, r, "KeyError")
       ELSE show_selection(
              [ud EXCEPT !.selected_tasks[tipe] = toggle_set(@, idx)],
              [r EXCEPT !.outcome = IF idx \in selected[tipe]
                                    THEN "ToggledOff" ELSE "ToggledOn"],
              fake)

\* Lines 188-193.
generate_chart_branch(ud, r) ==
    Result([ud EXCEPT !.chart_type = "gantt"],
           [r EXCEPT !.outcome = "ChooseChart",
                     !.replies = <<Message("Pilih jenis chart:",
                                     <<Button("Gantt Chart", ChartData("gantt")),
                                       Button("Timeline", ChartData("timeline"))>>)>>])

\* Lines 195-200.
chart_branch(ud, r, data) ==
    Result([ud EXCEPT !.chart_type = data.tail],
           [r EXCEPT !.outcome = "ChooseFormat",
                     !.replies = <<Message("Pilih format output:",
                                     <<Button("PNG", FormatData("png")),
                                       Button("Excel", FormatData("excel"))>>)>>])

\* Mutant of typed_note: every row is tagged Critical Path.
typed_note_critical(note, tipe) ==
    [Task |-> note.Task, Start |-> note.Start, End |-> note.End,
     Person |-> note.Person, Type |-> "Critical Path"]

\* note = notes[idx].copy(); note["Type"] = tipe, lines 207-208.
typed_note(note, tipe) ==
    [Task |-> note.Task, Start |-> note.Start, End |-> note.End,
     Person |-> note.Person, Type |-> tipe]

\* The rows of one category, lines 206-209.
RowsOf(notes, tipe, ids) ==
    LET order == iter(ids)
    IN [k \in 1..Len(order) |-> typed_note(notes[order[k] + 1], tipe)]

\* selected_notes as built by lines 204-209.
RECURSIVE SelectedNotesFrom(_, _, _)
SelectedNotesFrom(notes, selected, keys) ==
    IF keys = <<>> THEN <<>>
    ELSE RowsOf(notes, Head(keys), selected[Head(keys)])
         \o SelectedNotesFrom(notes, selected, Tail(keys))

selected_notes(notes, selected) ==
    SelectedNotesFrom(notes, selected, items(selected))

\* Mutant of nothing_selected: the empty-selection guard is left out.
nothing_selected_never(rows) == FALSE

\* "if not selected_notes", line 211.
nothing_selected(rows) == rows = <<>>

\* What lines 215-220 send for the chart made of rows.
Rendered(r, data, rows, chart_type) ==
    LET made == generate_chart(rows, "chart_" \o chart_type \o ".png",
                               "chart_" \o chart_type \o ".xlsx", chart_type)
    IN [r EXCEPT
          !.outcome = "Rendered",
          !.request = rows,
          !.chart = <<made>>,
          !.sent = (IF data.tail = "png"
                    THEN <<[kind |-> "photo", file |-> made.image]>>
                    ELSE <<>>)
                   \o (IF data.tail = "excel"
                       THEN <<[kind |-> "document", file |-> made.excel]>>
                       ELSE <<>>)]

\* Mutant of render: sending the chart uses the selection up.
render_once(ud, r, data, rows, chart_type) ==
    Result([ud EXCEPT !.selected_tasks = [t \in DOMAIN @ |-> {}]],
           Rendered(r, data, rows, chart_type))

\* Lines 215-220: the chart is made and sent; user_data is only read.
render(ud, r, data, rows, chart_type) ==
    Result(ud, Rendered(r, data, rows, chart_type))

\* Lines 202-220.
format_branch(ud, r, data) ==
    LET notes == ud.parsed_notes
        selected == ud.selected_tasks
        chart_type == IF ud.chart_type = None THEN "gantt" ELSE ud.chart_type
    IN IF IndexOutOfRange(notes, selected) THEN Raise(ud, r, "IndexError")
       ELSE LET rows == selected_notes(notes, selected) IN
            IF nothing_selected(rows)
            THEN Result(ud, [r EXCEPT !.outcome = "EmptySelection",
                                      !.replies = <<Message("Belum ada task yang dipilih.", <<>>)>>])
            ELSE render(ud, r, data, rows, chart_type)

\* handle_buttons, lines 145-243.  fake: the query is send_gantt's
\* FakeQuery, whose answer() does nothing.
handle_buttons(ud, data, fake, op) ==
    LET r0 == Response(op, data, ud)
        r == IF fake THEN r0 ELSE [r0 EXCEPT !.answers = <<Silent>>]
    IN IF data \in {Data("set_type_critical"), Data("set_type_floating")}
       THEN set_type_branch(ud, r, data, fake)
       ELSE IF data = Data("reset_all") THEN reset_all_branch(ud, r)
       ELSE IF data = Data("done_selecting") THEN done_selecting_branch(ud, r)
       ELSE IF data.head = "toggle_" THEN toggle_branch(ud, r, data, fake)
       ELSE IF data = Data("generate_chart") THEN generate_chart_branch(ud, r)
       ELSE IF data.head = "chart_" THEN chart_branch(ud, r, data)
       ELSE IF data.head = "format_" THEN format_branch(ud, r, data)
       ELSE show_selection(ud, [r EXCEPT !.outcome = "View"], fake)

(* ---------------------------- other handlers -------------------------- *)

\* start, lines 97-98.
start(ud) ==
    Result(ud, [Response("start", Data(""), ud) EXCEPT
                  !.outcome = "Greeting",
                  !.replies = <<Message("Kirimkan Miro Token kamu terlebih dahulu:", <<>>)>>])

\* handle_text_input, lines 100-108.
handle_text_input(ud) ==
    LET r == Response("text", Data(""), ud) IN
    IF ~ud.miro_token
    THEN Result([ud EXCEPT !.miro_token = TRUE],
                [r EXCEPT !.outcome = "TokenSaved",
                          !.replies = <<Message("Miro Token disimpan.", <<>>)>>])
    ELSE IF ~ud.board_id
    THEN Result([ud EXCEPT !.board_id = TRUE],
                [r EXCEPT !.outcome = "BoardSaved",
                          !.replies = <<Message("Board ID disimpan.", <<>>)>>])
    ELSE Result(ud, [r EXCEPT !.outcome = "Ignored"])

\* Mutant of loaded: a reload keeps the selection the session had.
loaded_keep_selection(ud, notes) ==
    [ud EXCEPT
       !.parsed_notes = notes,
       !.selected_tasks = IF DOMAIN @ = {}
                          THEN [t \in {"Critical Path", "Floating Task"} |-> {}]
                          ELSE @,
       !.current_type = "Critical Path"]

\* Lines 123-125.
loaded(ud, notes) ==
    [ud EXCEPT
       !.parsed_notes = notes,
       !.selected_tasks = [t \in {"Critical Path", "Floating Task"} |-> {}],
       !.current_type = "Critical Path"]

\* send_gantt, lines 110-143; notes_raw is what fetch_sticky_notes returned.
send_gantt(ud, notes_raw) ==
    LET r == Response("gantt", Data(""), ud) IN
    IF ~ud.miro_token \/ ~ud.board_id
    THEN Result(ud, [r EXCEPT !.outcome = "NotConfigured",
                              !.replies = <<Message("Kamu belum mengirimkan Miro Token atau Board ID.", <<>>)>>])
    ELSE LET notes == parse_batch(notes_raw) IN
         IF notes = <<>>
         THEN Result(ud, [r EXCEPT !.outcome = "NoValidNotes",
                                   !.fetched = notes_raw,
                                   !.replies = <<Message("Tidak ada sticky notes yang valid ditemukan.", <<>>)>>])
         ELSE LET ud1 == loaded(ud, notes)
                  shown == handle_buttons(ud1, Data(""), TRUE, "gantt")
              IN Result(shown.user_data,
                        [shown.out EXCEPT
                           !.pre = ud,
                           !.fetched = notes_raw,
                           !.outcome = IF shown.out.error = "" THEN "Loaded" ELSE @,
                           !.replies = <<Message("Data berhasil dimuat.", <<>>)>> \o @])

(* ------------------------------ behaviour ----------------------------- *)

\* hist when nothing is remembered.
NoToggle ==
    [toggled |-> FALSE, data |-> Data(""), outcome |-> "",
     selected_tasks |-> EmptyDict, current_type |-> None]

\* What hist keeps when response r is followed by response next: if both
\* answered the same toggle callback, the outcome of the first and the
\* session it started from; if r sent a chart and next answered a toggle,
\* reset or format callback, that a chart was sent; if a chart was sent,
\* then r toggled a task and next answered a format callback, that too.
Remember(h, r, next) ==
    IF r.op = "callback" /\ r.data.head = "toggle_"
       /\ next.op = "callback" /\ next.data = r.data
    THEN [toggled |-> TRUE, data |-> r.data, outcome |-> r.outcome,
          selected_tasks |-> r.pre.selected_tasks,
          current_type |-> r.pre.current_type]
    ELSE IF r.outcome = "Rendered" /\ next.op = "callback"
            /\ (next.data.head \in {"toggle_", "format_"}
                \/ next.data = Data("reset_all"))
    THEN [NoToggle EXCEPT !.outcome = "Rendered"]
    ELSE IF h.outcome = "Rendered" /\ ~h.toggled
            /\ r.outcome \in {"ToggledOn", "ToggledOff"}
            /\ next.op = "callback" /\ next.data.head = "format_"
    THEN [NoToggle EXCEPT !.outcome = "RenderedToggled"]
    ELSE NoToggle

\* The conversations that share the bot; context.user_data is kept per user.
Users == {1, 2}

\* The working directory before any chart was written.
NoFiles == [path \in {} |-> <<>>]

\* Mutant of write_files: a file that exists is left as it is.
write_files_if_absent(fs, made) ==
    fs @@ (made.image.path :> made.image.rows)
       @@ (made.excel.path :> made.excel.rows)

\* plt.savefig(image_path), line 84, and wb.save(excel_path), line 92: each
\* replaces the whole file at its path.
write_files(fs, made) ==
    (made.image.path :> made.image.rows)
    @@ (made.excel.path :> made.excel.rows) @@ fs

\* open(image, "rb") / open(excel, "rb"), lines 217 and 219.
open(fs, path) == [path |-> path, rows |-> fs[path]]

\* What is on disk at the paths a handler is about to write.
Found(fs, r) ==
    IF r.chart = <<>> \/ r.chart[1].image.path \notin DOMAIN fs THEN <<>>
    ELSE <<[image |-> open(fs, r.chart[1].image.path),
            excel |-> open(fs, r.chart[1].excel.path)]>>

\* The working directory after the handler that answered r.
Written(fs, r) == IF r.chart = <<>> THEN fs ELSE write_files(fs, r.chart[1])

\* The files the handler that answered r sends, read from the directory.
Delivered(fs, r) ==
    [k \in 1..Len(r.sent) |->
        [kind |-> r.sent[k].kind, file |-> open(fs, r.sent[k].file.path)]]

\* What is kept of response r to user u, whose handler started with the
\* directory fs.
Answered(u, r, fs) ==
    [user |-> u, outcome |-> r.outcome, found |-> Found(fs, r),
     delivered |-> Delivered(Written(fs, r), r)]

\* user_data: context.user_data of the conversation; out: the response of
\* the latest handler invocation; hist: Remember of the two latest responses.
\* application_user_data: context.user_data of every user; files: the chart
\* files by path; last: whose update the latest handler answered, with what
\* outcome, what it found on disk and what it sent from disk.
Init ==
    /\ user_data = NewUserData
    /\ out = Response("", Data(""), NewUserData)
    /\ hist = NoToggle
    /\ application_user_data = [u \in Users |-> NewUserData]
    /\ files = NoFiles
    /\ last = Answered(0, Response("", Data(""), NewUserData), NoFiles)


Start ==
    \E res \in {start(user_data)} :
    /\ user_data' = res.user_data
    /\ out' = res.out
    /\ hist' = Remember(hist, out, res.out)
    /\ UNCHANGED shared

TextInput ==
    \E res \in {handle_text_input(user_data)} :
    /\ user_data' = res.user_data
    /\ out' = res.out
    /\ hist' = Remember(hist, out, res.out)
    /\ UNCHANGED shared

Gantt == \E notes_raw \in Batches :
    \E res \in {send_gantt(user_data, notes_raw)} :
    /\ user_data' = res.user_data
    /\ out' = res.out
    /\ hist' = Remember(hist, out, res.out)
    /\ UNCHANGED shared

SetType ==
    \E d \in {Data("set_type_critical"), Data("set_type_floating")} :
        \E res \in {handle_buttons(user_data, d, FALSE, "callback")} :
        /\ user_data' = res.user_data
        /\ out' = res.out
        /\ hist' = Remember(hist, out, res.out)
        /\ UNCHANGED shared

ResetAll ==
    \E res \in {handle_buttons(user_data, Data("reset_all"), FALSE, "callback")} :
    /\ user_data' = res.user_data
    /\ out' = res.out
    /\ hist' = Remember(hist, out, res.out)
    /\ UNCHANGED shared

DoneSelecting ==
    \E res \in {handle_buttons(user_data, Data("done_selecting"), FALSE, "callback")} :
    /\ user_data' = res.user_data
    /\ out' = res.out
    /\ hist' = Remember(hist, out, res.out)
    /\ UNCHANGED shared

Toggle ==
    \E idx \in 0..(MaxNotes - 1) :
        \E res \in {handle_buttons(user_data, ToggleData(idx), FALSE, "callback")} :
        /\ user_data' = res.user_data
        /\ out' = res.out
        /\ hist' = Remember(hist, out, res.out)
        /\ UNCHANGED shared

GenerateChart ==
    \E res \in {handle_buttons(user_data, Data("generate_chart"), FALSE, "callback")} :
    /\ user_data' = res.user_data
    /\ out' = res.out
    /\ hist' = Remember(hist, out, res.out)
    /\ UNCHANGED shared

ChooseChart ==
    \E k \in {"gantt", "timeline"} :
        \E res \in {handle_buttons(user_data, ChartData(k), FALSE, "callback")} :
        /\ user_data' = res.user_data
        /\ out' = res.out
        /\ hist' = Remember(hist, out, res.out)
        /\ UNCHANGED shared

Format ==
    \E f \in {"png", "excel"} :
        \E res \in {handle_buttons(user_data, FormatData(f), FALSE, "callback")} :
        /\ user_data' = res.user_data
        /\ out' = res.out
        /\ hist' = Remember(hist, out, res.out)
        /\ UNCHANGED shared

Noop ==
    \E res \in {handle_buttons(user_data, Data("noop"), FALSE, "callback")} :
    /\ user_data' = res.user_data
    /\ out' = res.out
    /\ hist' = Remember(hist, out, res.out)
    /\ UNCHANGED shared

Next ==
    \/ Start
    \/ TextInput
    \/ Gantt
    \/ SetType
    \/ ResetAll
    \/ DoneSelecting
    \/ Toggle
    \/ GenerateChart
    \/ ChooseChart
    \/ Format
    \/ Noop

Spec == Init /\ [][Next]_vars

(* ------------------------ several conversations ----------------------- *)

\* What the board of a user returns to /gantt.
SharedBatches == {<<NoteA>>, <<NoteB>>}

\* The buttons pressed: the task, the second category and the two formats.
\* chart_type is left at its default "gantt", so every user's chart goes to
\* chart_gantt.png and chart_gantt.xlsx.
SharedCallbacks ==
    {ToggleData(0), Data("set_type_floating"),
     FormatData("png"), FormatData("excel")}

\* The application handles one update at a time (ApplicationBuilder of line
\* 247 leaves concurrent_updates off), so a handler runs from its first line
\* to its last before the next update is looked at.
SharedText ==
    \E u \in Users :
        \E res \in {handle_text_input(application_user_data[u])} :
        /\ application_user_data' = [application_user_data EXCEPT ![u] = res.user_data]
        /\ files' = Written(files, res.out)
        /\ last' = Answered(u, res.out, files)
        /\ UNCHANGED single

SharedGantt ==
    \E u \in Users, notes_raw \in SharedBatches :
        \E res \in {send_gantt(application_user_data[u], notes_raw)} :
        /\ application_user_data' = [application_user_data EXCEPT ![u] = res.user_data]
        /\ files' = Written(files, res.out)
        /\ last' = Answered(u, res.out, files)
        /\ UNCHANGED single

SharedButtons ==
    \E u \in Users, data \in SharedCallbacks :
        \E res \in {handle_buttons(application_user_data[u], data, FALSE, "callback")} :
        /\ application_user_data' = [application_user_data EXCEPT ![u] = res.user_data]
        /\ files' = Written(files, res.out)
        /\ last' = Answered(u, res.out, files)
        /\ UNCHANGED single

NextShared ==
    \/ SharedText
    \/ SharedGantt
    \/ SharedButtons

SpecShared == Init /\ [][NextShared]_vars

(* ------------------------------ properties ---------------------------- *)

\* The indices a category holds; none when selected_tasks was never stored.
Members(ud, t) ==
    IF t \in DOMAIN ud.selected_tasks THEN ud.selected_tasks[t] ELSE {}

Opposite(t) == IF t = "Critical Path" THEN "Floating Task" ELSE "Critical Path"

\* /gantt has loaded a task list into the session.
Initialized(ud) == ud.parsed_notes # <<>>

\* The latest handler ran for a toggle callback / for callback data d.
OutIsToggle == out.op = "callback" /\ out.data.head = "toggle_"
OutIs(d) == out.op = "callback" /\ out.data = d
OutIdx == int(out.data.tail)

\* C1: no task index is ever in both the Critical Path set and the
\* Floating Task set of selected_tasks.
C1_MutualExclusion ==
    Members(user_data, "Critical Path") \cap Members(user_data, "Floating Task") = {}

\* Both categories hold tasks and a toggle into the other one was attempted.
C1_Witness ==
    /\ out.outcome = "CrossCategoryConflict"
    /\ Members(user_data, "Critical Path") # {}
    /\ Members(user_data, "Floating Task") # {}

\* C2: a toggle of an index that the other category holds is refused: its
\* outcome is CrossCategoryConflict and user_data (both sets, the task list,
\* the active category) is exactly what it was.
C2_ConflictRefused ==
    (/\ OutIsToggle
     /\ out.pre.current_type # None
     /\ OutIdx \in Members(out.pre, Opposite(out.pre.current_type)))
    => /\ out.outcome = "CrossCategoryConflict"
       /\ user_data = out.pre

\* Index 0 went into Critical Path, the active category is Floating Task,
\* and toggle_0 has just been refused: 0 is in Critical Path only.
C2_Witness ==
    /\ OutIs(ToggleData(0))
    /\ out.outcome = "CrossCategoryConflict"
    /\ user_data.current_type = "Floating Task"
    /\ 0 \in Members(user_data, "Critical Path")
    /\ 0 \notin Members(user_data, "Floating Task")

\* Position of a request row's task in the task list.
TaskIndex(notes, row) == CHOOSE k \in 1..Len(notes) : notes[k].Task = row.Task

\* C3: the rows handed to generate_chart are in ascending task-index order,
\* whatever their categories.
C3_RequestAscending ==
    out.outcome = "Rendered" =>
        \A a, b \in 1..Len(out.request) :
            a < b => TaskIndex(out.pre.parsed_notes, out.request[a])
                       < TaskIndex(out.pre.parsed_notes, out.request[b])

\* The row that task i of the list gives in category t.
RowFor(notes, i, t) ==
    [Task |-> notes[i + 1].Task, Start |-> notes[i + 1].Start,
     End |-> notes[i + 1].End, Person |-> notes[i + 1].Person, Type |-> t]

Assigned(ud) ==
    {<<i, t>> \in (0..MaxNotes) \X {"Critical Path", "Floating Task"} :
        i \in Members(ud, t)}

\* C4: the render request is the projection of the assignment onto the task
\* list: one row per assigned index, carrying the fields of that task and
\* the category holding it, no other row; the stored tasks are unchanged.
C4_RequestIsProjection ==
    out.outcome = "Rendered" =>
        LET notes == out.pre.parsed_notes IN
        /\ Len(out.request) = Cardinality(Assigned(out.pre))
        /\ \A p \in Assigned(out.pre) :
              \E k \in 1..Len(out.request) :
                  out.request[k] = RowFor(notes, p[1], p[2])
        /\ \A k \in 1..Len(out.request) :
              \E p \in Assigned(out.pre) :
                  out.request[k] = RowFor(notes, p[1], p[2])
        /\ user_data.parsed_notes = notes

\* A render of a selection with rows of both categories and a task left out.
C4_Witness ==
    /\ out.outcome = "Rendered"
    /\ Members(out.pre, "Critical Path") # {}
    /\ Members(out.pre, "Floating Task") # {}
    /\ Len(out.request) < Len(out.pre.parsed_notes)

\* C5: a format_ callback handled while both sets are empty calls
\* generate_chart on nothing, sends no artifact, answers with the
\* empty-selection message and leaves user_data unchanged.
C5_EmptyRenderRefused ==
    (/\ out.op = "callback" /\ out.data.head = "format_"
     /\ Members(out.pre, "Critical Path") = {}
     /\ Members(out.pre, "Floating Task") = {})
    => /\ out.outcome = "EmptySelection"
       /\ out.request = <<>> /\ out.chart = <<>> /\ out.sent = <<>>
       /\ out.replies = <<Message("Belum ada task yang dipilih.", <<>>)>>
       /\ user_data = out.pre

\* A render asked of a loaded session in which nothing is selected.
C5_Witness ==
    /\ out.op = "callback" /\ out.data.head = "format_"
    /\ Initialized(out.pre)
    /\ out.outcome = "EmptySelection"

\* C6: done_selecting on a loaded session with an empty assignment fails
\* with EmptySelection and does not offer the Generate Chart button.
C6_DoneNeedsSelection ==
    (/\ OutIs(Data("done_selecting"))
     /\ Initialized(out.pre)
     /\ Assigned(out.pre) = {})
    => /\ out.outcome = "EmptySelection"
       /\ \A k \in 1..Len(out.replies) :
             \A j \in 1..Len(out.replies[k].reply_markup) :
                 out.replies[k].reply_markup[j].callback_data # Data("generate_chart")

\* C7: in a loaded session, toggling the same index twice in a row, the
\* index not being held by the other category, brings both sets back to
\* what they were before the first toggle.
C7_ToggleRoundTrip ==
    (/\ hist.toggled
     /\ OutIsToggle
     /\ out.data = hist.data
     /\ Initialized(out.pre)
     /\ out.pre.current_type = hist.current_type
     /\ OutIdx \notin hist.selected_tasks[Opposite(hist.current_type)])
    => user_data.selected_tasks = hist.selected_tasks

\* An index was toggled on and then off again.
C7_Witness ==
    /\ hist.toggled /\ hist.outcome = "ToggledOn"
    /\ OutIsToggle /\ out.data = hist.data
    /\ out.outcome = "ToggledOff"
    /\ Initialized(out.pre)

\* The other starting case: toggled off and then on again.
C7_WitnessOffOn ==
    /\ hist.toggled /\ hist.outcome = "ToggledOff"
    /\ OutIsToggle /\ out.data = hist.data
    /\ out.outcome = "ToggledOn"
    /\ Initialized(out.pre)

\* C8: reset_all on a loaded session empties both sets and leaves the task
\* list and the active category as they were.
C8_ResetClears ==
    (OutIs(Data("reset_all")) /\ Initialized(out.pre))
    => /\ user_data.selected_tasks["Critical Path"] = {}
       /\ user_data.selected_tasks["Floating Task"] = {}
       /\ user_data.parsed_notes = out.pre.parsed_notes
       /\ user_data.current_type = out.pre.current_type
       /\ out.outcome = "Reset"

\* A reset of a session that held tasks in both categories.
C8_Witness ==
    /\ OutIs(Data("reset_all"))
    /\ Initialized(out.pre)
    /\ Members(out.pre, "Critical Path") # {}
    /\ Members(out.pre, "Floating Task") # {}

\* C9: no callback ends in an unhandled error (KeyError, IndexError).
C9_NoUnhandledError ==
    out.op = "callback" => out.error = ""

\* C10: a toggle handled while no active category is set has the outcome
\* NoActiveCategory, the operator is shown its alert, and neither set changes.
C10_NoTypeReported ==
    (OutIsToggle /\ out.pre.current_type = None)
    => /\ out.outcome = "NoActiveCategory"
       /\ QueryAnswer(out).show_alert
       /\ user_data.selected_tasks = out.pre.selected_tasks

\* The task each note of the board stands for, read off the note text by
\* hand: three well-formed notes, one with three segments, one whose Start
\* has nine characters, one without a data.content field.
Task(name, from, to, person) ==
    [Task |-> name, Start |-> from, End |-> to, Person |-> person]

Oracle(note) ==
    CASE note = NoteA -> <<Task("A", "2025-01-01", "2025-01-03", "Ann")>>
      [] note = NoteB -> <<Task("B", "2025-01-02", "2025-01-05", "Bob")>>
      [] note = NoteC -> <<Task("C", "2025-01-04", "2025-01-04", "Cid")>>
      [] note = NoteDate9 -> <<Task("D", "2025-1-07", "2025-01-09", "Dan")>>
      [] OTHER -> <<>>

\* The tasks of the notes of a batch that parse, in arrival order.
RECURSIVE ExpectedTasks(_)
ExpectedTasks(batch) ==
    IF batch = <<>> THEN <<>>
    ELSE Oracle(Head(batch)) \o ExpectedTasks(Tail(batch))

\* The latest handler was /gantt with both credentials stored.
OutIsFetch == out.op = "gantt" /\ out.pre.miro_token /\ out.pre.board_id

\* C11: /gantt with a note that parses stores a non-empty task list drawn
\* from the fetched notes, two empty category sets and the active category
\* "Critical Path", whatever the session held; /gantt with no note that
\* parses is refused and leaves the whole session as it was.
C11_Initialize ==
    OutIsFetch =>
        IF \E k \in 1..Len(out.fetched) : Oracle(out.fetched[k]) # <<>>
        THEN /\ out.outcome = "Loaded"
             /\ user_data.parsed_notes # <<>>
             /\ \A k \in 1..Len(user_data.parsed_notes) :
                   \E j \in 1..Len(out.fetched) :
                       Oracle(out.fetched[j]) = <<user_data.parsed_notes[k]>>
             /\ DOMAIN user_data.selected_tasks = {"Critical Path", "Floating Task"}
             /\ user_data.selected_tasks["Critical Path"] = {}
             /\ user_data.selected_tasks["Floating Task"] = {}
             /\ user_data.current_type = "Critical Path"
        ELSE /\ out.outcome = "NoValidNotes"
             /\ user_data = out.pre

\* A reload over a session that held a selection and the other category.
C11_Witness ==
    /\ OutIsFetch
    /\ out.outcome = "Loaded"
    /\ Members(out.pre, "Critical Path") # {}
    /\ Members(out.pre, "Floating Task") # {}
    /\ out.pre.current_type = "Floating Task"

\* A refused reload of a session that held a selection.
C11_WitnessRefused ==
    /\ OutIsFetch
    /\ out.outcome = "NoValidNotes"
    /\ out.fetched # <<>>
    /\ Members(out.pre, "Floating Task") # {}

\* C12: every stored task has a Start and an End of exactly 10 characters.
C12_DatesTenChars ==
    \A k \in 1..Len(user_data.parsed_notes) :
        /\ Len(user_data.parsed_notes[k].Start) = 10
        /\ Len(user_data.parsed_notes[k].End) = 10

\* C13: the task list stored by /gantt is exactly the tasks of the fetched
\* notes that parse, in arrival order; a rejected note adds nothing and
\* changes nothing for the others.  (No list is stored when none parses.)
C13_BatchParsing ==
    OutIsFetch =>
        /\ out.outcome = "Loaded" => user_data.parsed_notes = ExpectedTasks(out.fetched)
        /\ ExpectedTasks(out.fetched) # <<>> => out.outcome = "Loaded"

\* A batch with a rejected note before and one after a note that parses.
C13_Witness ==
    /\ OutIsFetch
    /\ out.outcome = "Loaded"
    /\ \E i, j, k \in 1..Len(out.fetched) :
          /\ i < j /\ j < k
          /\ Oracle(out.fetched[i]) = <<>>
          /\ Oracle(out.fetched[j]) # <<>>
          /\ Oracle(out.fetched[k]) = <<>>

\* A batch of several notes that all parse, stored in arrival order.
C13_WitnessOrder ==
    /\ OutIsFetch
    /\ Len(user_data.parsed_notes) >= 2
    /\ user_data.parsed_notes[1].Task = "A"
    /\ user_data.parsed_notes[2].Task = "B"

\* The marker the operator should see on task i: the set that holds it.
MarkerOf(ud, i) ==
    IF i \in Members(ud, "Critical Path") THEN "red"
    ELSE IF i \in Members(ud, "Floating Task") THEN "blue"
    ELSE ""

\* The latest handler showed the options keyboard of a loaded session.
KeyboardShown == out.keyboard # <<>> /\ Initialized(user_data)

\* C15: the keyboard shown for a loaded session has exactly one option per
\* task, in task order, before its action buttons; option i carries "noop"
\* exactly when i is held by the category other than the active one and
\* "toggle_i" otherwise, and its marker names the set that holds i.
C15_OptionsView ==
    (KeyboardShown /\ user_data.current_type # None) =>
        LET notes == user_data.parsed_notes
            other == Opposite(user_data.current_type)
        IN /\ Len(out.keyboard) = Len(notes) + Len(ActionButtons)
           /\ \A k \in 1..Len(out.keyboard) :
                 out.keyboard[k].callback_data.head = "toggle_" => k <= Len(notes)
           /\ \A i \in 0..(Len(notes) - 1) :
                 LET o == out.keyboard[i + 1] IN
                 /\ o.label = notes[i + 1].Task
                 /\ o.callback_data = Data("noop") <=> i \in Members(user_data, other)
                 /\ i \notin Members(user_data, other) => o.callback_data = ToggleData(i)
                 /\ o.marker = MarkerOf(user_data, i)

\* A keyboard with a disabled option, an option selected in the active
\* category and an unselected option.
C15_Witness ==
    /\ KeyboardShown
    /\ user_data.current_type # None
    /\ \E i, j, k \in 1..Len(user_data.parsed_notes) :
          /\ out.keyboard[i].callback_data = Data("noop")
          /\ out.keyboard[j].callback_data.head = "toggle_"
          /\ out.keyboard[j].marker # ""
          /\ out.keyboard[k].marker = ""

\* The (Task, Category) pairs of a render request / of a worksheet.
RequestPairs(request) == {<<request[k].Task, request[k].Type>> : k \in 1..Len(request)}
SheetPairs(rows) == {<<rows[k][1], rows[k][5]>> : k \in 2..Len(rows)}

\* C16: the worksheet made for a render request is the header row followed
\* by one row per request row, in request order, which is also the order of
\* the chart's bars (bar i is request row i), and it holds the same set of
\* (Task, Category) pairs as the request.
C16_ExportRoundTrip ==
    out.outcome = "Rendered" =>
        LET made == out.chart[1]
            sheet == made.excel.rows
            bars == made.image.rows
        IN /\ out.request # <<>>
           /\ sheet[1] = <<"Task", "Start", "End", "Person", "Type">>
           /\ Len(sheet) = Len(out.request) + 1
           /\ Len(bars) = Len(out.request)
           /\ \A k \in 1..Len(out.request) :
                 /\ sheet[k + 1][1] = out.request[k].Task
                 /\ sheet[k + 1][5] = out.request[k].Type
                 /\ bars[k].y = k - 1
                 /\ bars[k].label = out.request[k].Task
           /\ SheetPairs(sheet) = RequestPairs(out.request)

\* A render of three rows of which the first and the last differ in category.
C16_Witness ==
    /\ out.outcome = "Rendered"
    /\ Len(out.request) >= 3
    /\ out.request[1].Type # out.request[Len(out.request)].Type

\* C17: the answer the operator gets to a toggle refused for
\* CrossCategoryConflict is the alert.
C17_ConflictAlertShown ==
    (OutIsToggle /\ out.outcome = "CrossCategoryConflict")
    => /\ QueryAnswer(out).given
       /\ QueryAnswer(out).show_alert

\* C18: every index held by a category set addresses a task of the list.
C18_IndicesValid ==
    \A t \in {"Critical Path", "Floating Task"} :
        \A i \in Members(user_data, t) :
            0 <= i /\ i < Len(user_data.parsed_notes)

\* C19: a callback that set the category, toggled a task or reset the
\* selection of a loaded session shows the keyboard of the resulting state.
C19_KeyboardRebuilt ==
    (out.op = "callback" /\ Initialized(out.pre)
     /\ out.outcome \in {"TypeSet", "ToggledOn", "ToggledOff", "Reset"})
    => /\ Len(out.keyboard) = Len(user_data.parsed_notes) + Len(ActionButtons)
       /\ out.current = user_data.current_type
       /\ \A i \in 0..(Len(user_data.parsed_notes) - 1) :
             out.keyboard[i + 1].marker = MarkerOf(user_data, i)

\* The sets of out.pre with index i of the active category flipped.
Flipped(ud, i) ==
    [ud.selected_tasks EXCEPT
        ![ud.current_type] = IF i \in @ THEN @ \ {i} ELSE @ \cup {i}]

\* C14: a render and the done summary leave the whole session as it was;
\* right after a render a toggle of a task not held by the other category
\* flips it, a reset empties both sets and a second render succeeds; and a
\* render that follows a render and a toggle is the projection of the
\* assignment as the toggle left it.
C14_Refinalize ==
    /\ out.outcome \in {"Rendered", "Summary"} => user_data = out.pre
    /\ hist.outcome = "Rendered" =>
          /\ (OutIsToggle
              /\ OutIdx \notin Members(out.pre, Opposite(out.pre.current_type)))
             => /\ out.outcome \in {"ToggledOn", "ToggledOff"}
                /\ user_data.selected_tasks = Flipped(out.pre, OutIdx)
          /\ OutIs(Data("reset_all"))
             => /\ out.outcome = "Reset"
                /\ Assigned(user_data) = {}
          /\ (out.op = "callback" /\ out.data.head = "format_")
             => out.outcome = "Rendered"
    /\ (hist.outcome = "RenderedToggled" /\ out.outcome = "Rendered") =>
          /\ Len(out.request) = Cardinality(Assigned(out.pre))
          /\ \A p \in Assigned(out.pre) :
                \E k \in 1..Len(out.request) :
                    /\ out.request[k].Task = out.pre.parsed_notes[p[1] + 1].Task
                    /\ out.request[k].Type = p[2]

\* A render, then a toggle that adds a task, then a second render.
C14_Witness ==
    /\ hist.outcome = "RenderedToggled"
    /\ out.outcome = "Rendered"
    /\ Len(out.request) >= 2

\* A toggle accepted right after a render.
C14_WitnessToggle ==
    /\ hist.outcome = "Rendered"
    /\ OutIsToggle
    /\ out.outcome = "ToggledOff"

\* The (Task, Category) pairs a session assigns.
OwnPairs(ud) ==
    {<<ud.parsed_notes[p[1] + 1].Task, p[2]>> :
        p \in {q \in Assigned(ud) : q[1] < Len(ud.parsed_notes)}}

\* The (Task, Category) pairs a chart file shows: bar label and colour for
\* the picture, first and last column for the worksheet.
FilePairs(kind, file) ==
    IF kind = "photo"
    THEN {<<file.rows[k].label, file.rows[k].color>> : k \in 1..Len(file.rows)}
    ELSE SheetPairs(file.rows)

ShownAs(kind, pairs) ==
    IF kind = "photo" THEN {<<p[1], Colors(p[2])>> : p \in pairs} ELSE pairs

\* C20: a handler run for one user leaves the user_data of every other user
\* as it was, and the file it sends for a render shows exactly the tasks and
\* categories assigned in the session of the user who asked, although all
\* users write chart_gantt.png and chart_gantt.xlsx.
C20_Isolation ==
    /\ [](last.outcome = "Rendered" =>
            /\ Len(last.delivered) = 1
            /\ \A k \in 1..Len(last.delivered) :
                  FilePairs(last.delivered[k].kind, last.delivered[k].file)
                    = ShownAs(last.delivered[k].kind,
                              OwnPairs(application_user_data[last.user])))
    /\ [][\A u \in Users :
            u # last'.user => application_user_data'[u] = application_user_data[u]]_vars

\* A render by one user over the chart files of the other user's selection,
\* which differs from the selection of the user who asked.
C20_Witness ==
    /\ last.outcome = "Rendered"
    /\ last.found # <<>>
    /\ \E v \in Users \ {last.user} :
          /\ SheetPairs(last.found[1].excel.rows) = OwnPairs(application_user_data[v])
          /\ OwnPairs(application_user_data[v])
               # OwnPairs(application_user_data[last.user])

====
